---- MODULE Spec2Model ----
(***************************************************************************)
(* Model of scripts/snakemake/ichorCNA_results_summary.py: one run of      *)
(* main() over a results directory.  Strings are sequences of one-character*)
(* strings, so that endswith, replace, split, strip and the code-point     *)
(* ordering used by sort_values are computed, not assumed.                 *)
(***************************************************************************)
EXTENDS Integers, Sequences, FiniteSets, TLC

VARIABLES results_dir, bam_name_pattern, create_zips, pc, status, log,
          tf_data, cna_data_logR, cna_data_logR_Copy_Number,
          cna_matrix_logR, cna_matrix_logR_Copy_Number, output_dir

vars == <<results_dir, bam_name_pattern, create_zips, pc, status, log,
          tf_data, cna_data_logR, cna_data_logR_Copy_Number,
          cna_matrix_logR, cna_matrix_logR_Copy_Number, output_dir>>

(***************************************************************************)
(* Bounds of the explored inputs.                                          *)
(***************************************************************************)
MaxEntries == 2
MaxLines == 2
MaxRows == 2

(***************************************************************************)
(* Python str primitives.                                                  *)
(***************************************************************************)
\* The characters used, in code-point order (str comparison is by code point).
Ascii ==
  <<"\t", " ", "-", ".", "0", "1", "2", "3", "4", "5", "6", "7", "8", "9", ":",
    "A", "B", "C", "D", "E", "F", "G", "H", "I", "J", "K", "L", "M", "N",
    "O", "P", "Q", "R", "S", "T", "U", "V", "W", "X", "Y", "Z", "_", "a",
    "b", "c", "d", "e", "f", "g", "h", "i", "j", "k", "l", "m", "n", "o",
    "p", "q", "r", "s", "t", "u", "v", "w", "x", "y", "z">>

Ord(c) == CHOOSE i \in 1..Len(Ascii) : Ascii[i] = c

\* s < t for Python str
StrLess(s, t) ==
  \E i \in 1..(Len(s) + 1) :
    /\ \A j \in 1..(i - 1) : j <= Len(t) /\ s[j] = t[j]
    /\ \/ i = Len(s) + 1 /\ i <= Len(t)
       \/ i <= Len(s) /\ i <= Len(t) /\ Ord(s[i]) < Ord(t[i])

\* s.endswith(suf)
EndsWith(s, suf) ==
  /\ Len(s) >= Len(suf)
  /\ SubSeq(s, Len(s) - Len(suf) + 1, Len(s)) = suf

\* s.startswith(pre)
StartsWith(s, pre) ==
  /\ Len(s) >= Len(pre)
  /\ SubSeq(s, 1, Len(pre)) = pre

\* sub in s
Contains(s, sub) ==
  \E i \in 1..(Len(s) - Len(sub) + 1) : SubSeq(s, i, i + Len(sub) - 1) = sub

RECURSIVE Replace(_, _)
\* s.replace(old, "") : every non-overlapping occurrence, left to right
Replace(s, old) ==
  IF old = <<>> \/ s = <<>> THEN s
  ELSE IF StartsWith(s, old)
       THEN Replace(SubSeq(s, Len(old) + 1, Len(s)), old)
       ELSE <<Head(s)>> \o Replace(Tail(s), old)

\* the whitespace str.strip() removes
IsSpace(c) == c \in {" ", "\t"}

RECURSIVE LStrip(_)
LStrip(s) == IF s # <<>> /\ IsSpace(Head(s)) THEN LStrip(Tail(s)) ELSE s

RECURSIVE RStrip(_)
RStrip(s) ==
  IF s # <<>> /\ IsSpace(s[Len(s)]) THEN RStrip(SubSeq(s, 1, Len(s) - 1)) ELSE s

\* s.strip()
Strip(s) == RStrip(LStrip(s))

\* index of the first ":" of s, Len(s) + 1 when there is none
FirstColon(s) ==
  IF \E i \in 1..Len(s) : s[i] = ":"
  THEN CHOOSE i \in 1..Len(s) : s[i] = ":" /\ \A j \in 1..(i - 1) : s[j] # ":"
  ELSE Len(s) + 1

\* the text after the first ":" of s
AfterFirstColon(s) == SubSeq(s, FirstColon(s) + 1, Len(s))

\* line.split(":")[1] : the piece between the first and the second ":"
SplitColon1(line) ==
  LET rest == AfterFirstColon(line)
  IN  SubSeq(rest, 1, FirstColon(rest) - 1)


(***************************************************************************)
(* Cell values of a table: a missing value (numpy.nan), a str, an int or a *)
(* float.  A float is m / 10^e with no trailing zero in m when e > 0.      *)
(***************************************************************************)
NaN == [kind |-> "nan", s |-> <<>>, m |-> 0, e |-> 0]

Str(x) == [kind |-> "str", s |-> x, m |-> 0, e |-> 0]

IntCell(n) == [kind |-> "int", s |-> <<>>, m |-> n, e |-> 0]

Float(mant, exp) == [kind |-> "float", s |-> <<>>, m |-> mant, e |-> exp]

Digits == <<"0", "1", "2", "3", "4", "5", "6", "7", "8", "9">>

IsDigit(c) == \E i \in 1..Len(Digits) : Digits[i] = c

DigitVal(c) == (CHOOSE i \in 1..Len(Digits) : Digits[i] = c) - 1

RECURSIVE ToNat(_)
ToNat(ds) ==
  IF ds = <<>> THEN 0
  ELSE 10 * ToNat(SubSeq(ds, 1, Len(ds) - 1)) + DigitVal(ds[Len(ds)])

RECURSIVE Reduce(_, _)
Reduce(mant, exp) ==
  IF exp > 0 /\ mant % 10 = 0 THEN Reduce(mant \div 10, exp - 1)
  ELSE Float(mant, exp)

\* float(value): [ok |-> FALSE] stands for ValueError
ParseFloat(value) ==
  LET neg   == value # <<>> /\ Head(value) = "-"
      body  == IF neg THEN Tail(value) ELSE value
      dot   == IF \E i \in 1..Len(body) : body[i] = "."
               THEN CHOOSE i \in 1..Len(body) :
                      body[i] = "." /\ \A j \in 1..(i - 1) : body[j] # "."
               ELSE Len(body) + 1
      ip    == SubSeq(body, 1, dot - 1)
      fp    == SubSeq(body, dot + 1, Len(body))
      wellf == /\ Len(ip) + Len(fp) > 0
               /\ \A i \in 1..Len(ip) : IsDigit(ip[i])
               /\ \A i \in 1..Len(fp) : IsDigit(fp[i])
      mag   == ToNat(ip \o fp)
  IN  IF value = <<"n", "a", "n">> THEN [ok |-> TRUE, val |-> NaN]
      ELSE IF wellf
           THEN [ok |-> TRUE,
                 val |-> Reduce(IF neg THEN 0 - mag ELSE mag, Len(fp))]
           ELSE [ok |-> FALSE, val |-> NaN]

(***************************************************************************)
(* extract_tf_data                                                         *)
(***************************************************************************)
ParamsSuffix == <<".", "p", "a", "r", "a", "m", "s", ".", "t", "x", "t">>

GenderLabel == <<"G", "e", "n", "d", "e", "r", ":">>

TumorFractionLabel == <<"T", "u", "m", "o", "r", " ", "F", "r", "a", "c", "t", "i", "o", "n", ":">>

PloidyLabel == <<"P", "l", "o", "i", "d", "y", ":">>

ChrYLabel == <<"C", "h", "r", "Y", " ", "c", "o", "v", "e", "r", "a", "g", "e", " ", "f",
    "r", "a", "c", "t", "i", "o", "n", ":">>

ChrXLabel == <<"C", "h", "r", "X", " ", "m", "e", "d", "i", "a", "n", " ", "l", "o", "g",
    " ", "r", "a", "t", "i", "o", ":">>

NA == <<"N", "A">>

\* data = {"library": sample_folder}; the DataFrame gives every absent key NaN
NewData(sample_folder) ==
  [library |-> sample_folder, tumor_fraction |-> NaN, ploidy |-> NaN,
   gender |-> NaN, ChrY_coverage_fraction |-> NaN,
   ChrX_median_log_ratio |-> NaN]

\* line.split(":")[1].strip()
LineValue(line) == Strip(SplitColon1(line))

\* data["gender"] = line.split(":")[1].strip()
GenderValue(line) == Str(LineValue(line))

\* NA read as zero
NumericValueNAZero(line) ==
  IF LineValue(line) # NA THEN ParseFloat(LineValue(line))
  ELSE [ok |-> TRUE, val |-> Float(0, 0)]

\* float(value) if value != 'NA' else np.nan
NumericValue(line) ==
  IF LineValue(line) # NA THEN ParseFloat(LineValue(line))
  ELSE [ok |-> TRUE, val |-> NaN]

\* the field a stripped line assigns: the first test of the if/elif chain it passes
LineField(line) ==
  IF Contains(line, GenderLabel) THEN "gender"
  ELSE IF Contains(line, TumorFractionLabel) THEN "tumor_fraction"
  ELSE IF Contains(line, PloidyLabel) THEN "ploidy"
  ELSE IF Contains(line, ChrYLabel) THEN "ChrY_coverage_fraction"
  ELSE IF Contains(line, ChrXLabel) THEN "ChrX_median_log_ratio"
  ELSE "none"

\* one iteration of "for line in file" on st = [ok, data]
ParseLine(st, rawline) ==
  LET line  == Strip(rawline)
      field == LineField(line)
  IN  IF ~st.ok \/ field = "none" THEN st
      ELSE IF field = "gender"
           THEN [st EXCEPT !.data.gender = GenderValue(line)]
           ELSE IF NumericValue(line).ok
                THEN [st EXCEPT !.data[field] = NumericValue(line).val]
                ELSE [ok |-> FALSE, data |-> st.data]

RECURSIVE ParseLines(_, _)
ParseLines(st, lines) ==
  IF lines = <<>> THEN st
  ELSE ParseLines(ParseLine(st, Head(lines)), Tail(lines))

\* index of the first file of the listing whose name ends with suffix, 0 if none
FirstMatch(files, suffix) ==
  IF \E i \in 1..Len(files) : EndsWith(files[i].name, suffix)
  THEN CHOOSE i \in 1..Len(files) :
         /\ EndsWith(files[i].name, suffix)
         /\ \A j \in 1..(i - 1) : ~EndsWith(files[j].name, suffix)
  ELSE 0

\* the body of "for sample_folder in os.listdir(results_dir)" on acc = [ok, rows]
TfStep(acc, entry) ==
  LET idx    == FirstMatch(entry.files, ParamsSuffix)
      parsed == ParseLines([ok |-> TRUE, data |-> NewData(entry.name)],
                           entry.files[idx].lines)
  IN  IF ~acc.ok \/ ~entry.isdir \/ idx = 0 THEN acc
      ELSE IF ~entry.files[idx].isfile \/ ~parsed.ok
           THEN [ok |-> FALSE, rows |-> acc.rows]
           ELSE [ok |-> TRUE, rows |-> Append(acc.rows, parsed.data)]

RECURSIVE TfLoop(_, _)
TfLoop(acc, entries) ==
  IF entries = <<>> THEN acc
  ELSE TfLoop(TfStep(acc, Head(entries)), Tail(entries))

RECURSIVE InsertByLibrary(_, _)
InsertByLibrary(sorted, row) ==
  IF sorted = <<>> THEN <<row>>
  ELSE IF StrLess(row.library, Head(sorted).library)
       THEN <<row>> \o sorted
       ELSE <<Head(sorted)>> \o InsertByLibrary(Tail(sorted), row)

\* the table left in listing order
SortByLibrarySkipped(rows) == rows

RECURSIVE SortByLibrary(_)
\* .sort_values('library').reset_index(drop=True)
SortByLibrary(rows) ==
  IF rows = <<>> THEN <<>>
  ELSE InsertByLibrary(SortByLibrary(SubSeq(rows, 1, Len(rows) - 1)),
                       rows[Len(rows)])

\* extract_tf_data(results_dir): [ok, rows]; ok = FALSE when it raises
extract_tf_data(dir) ==
  LET got == TfLoop([ok |-> TRUE, rows |-> <<>>], dir)
  IN  [ok |-> got.ok, rows |-> SortByLibrary(got.rows)]

(***************************************************************************)
(* extract_cna_data.  A .cna.seg file is held as pandas.read_csv gives it: *)
(* header, the column names in file order; rows, one sequence of cells per *)
(* data row (chr a str cell, start and end int cells, the others floats or *)
(* missing).                                                               *)
(***************************************************************************)
CnaSuffix == <<".", "c", "n", "a", ".", "s", "e", "g">>

LogR == <<"l", "o", "g", "R">>

LogRCopyNumber == <<"l", "o", "g", "R", "_", "C", "o", "p", "y", "_", "N", "u", "m", "b", "e", "r">>

ChrCol == <<"c", "h", "r">>

StartCol == <<"s", "t", "a", "r", "t">>

EndCol == <<"e", "n", "d">>

\* position of a column name in df.columns, 0 if absent
ColIndex(header, col) ==
  IF \E i \in 1..Len(header) : header[i] = col
  THEN CHOOSE i \in 1..Len(header) :
         header[i] = col /\ \A j \in 1..(i - 1) : header[j] # col
  ELSE 0

\* f"{library}.{logR_column_choice}"
LogRColumn(library, choice) == library \o <<".">> \o choice

\* file_name.replace(".cna.seg", "")
LibraryOfFile(file_name) == Replace(file_name, CnaSuffix)

\* the selector argument ignored in favour of its default
ValueIndexDefaultSelector(header, library, choice) ==
  ColIndex(header, LogRColumn(library, LogRCopyNumber))

\* the value column extracted_data takes from df
ValueIndex(header, library, choice) == ColIndex(header, LogRColumn(library, choice))

\* extracted_data[['library','chr','start','end',choice]].values.tolist()
ExtractedRows(file, library, choice) ==
  [i \in 1..Len(file.rows) |->
     [library |-> library,
      chr     |-> file.rows[i][ColIndex(file.header, ChrCol)],
      start   |-> file.rows[i][ColIndex(file.header, StartCol)],
      end     |-> file.rows[i][ColIndex(file.header, EndCol)],
      value   |-> file.rows[i][ValueIndex(file.header, library, choice)]]]

\* the body of "for file_name in os.listdir(item_path)" on acc = [ok, rows]
CnaFileStep(acc, file, choice) ==
  LET library == LibraryOfFile(file.name)
      present == ValueIndex(file.header, library, choice) # 0
      keyerr  == \E c \in {ChrCol, StartCol, EndCol} : ColIndex(file.header, c) = 0
  IN  IF ~acc.ok \/ ~EndsWith(file.name, CnaSuffix) \/ ~file.isfile \/ ~present
      THEN acc
      ELSE IF keyerr THEN [ok |-> FALSE, rows |-> acc.rows]
           ELSE [ok |-> TRUE,
                 rows |-> acc.rows \o ExtractedRows(file, library, choice)]

RECURSIVE CnaFileLoop(_, _, _)
CnaFileLoop(acc, files, choice) ==
  IF files = <<>> THEN acc
  ELSE CnaFileLoop(CnaFileStep(acc, Head(files), choice), Tail(files), choice)

RECURSIVE CnaLoop(_, _, _)
\* "for item in os.listdir(parent_directory)"
CnaLoop(acc, entries, choice) ==
  IF entries = <<>> THEN acc
  ELSE CnaLoop(IF Head(entries).isdir
               THEN CnaFileLoop(acc, Head(entries).files, choice)
               ELSE acc,
               Tail(entries), choice)

\* a sorts strictly before b by ['library', 'chr', 'start', 'end']
KeyLess(a, b) ==
  \/ StrLess(a.library, b.library)
  \/ /\ a.library = b.library
     /\ \/ StrLess(a.chr.s, b.chr.s)
        \/ /\ a.chr = b.chr
           /\ \/ a.start.m < b.start.m
              \/ a.start = b.start /\ a.end.m < b.end.m

RECURSIVE InsertByKey(_, _)
InsertByKey(sorted, row) ==
  IF sorted = <<>> THEN <<row>>
  ELSE IF KeyLess(row, Head(sorted))
       THEN <<row>> \o sorted
       ELSE <<Head(sorted)>> \o InsertByKey(Tail(sorted), row)

\* the rows left in the order read
SortByKeySkipped(rows) == rows

RECURSIVE SortByKey(_)
\* .sort_values(by=['library','chr','start','end']).reset_index(drop=True)
SortByKey(rows) ==
  IF rows = <<>> THEN <<>>
  ELSE InsertByKey(SortByKey(SubSeq(rows, 1, Len(rows) - 1)), rows[Len(rows)])

\* extract_cna_data(parent_directory, choice): [ok, rows]
extract_cna_data(dir, choice) ==
  LET got == CnaLoop([ok |-> TRUE, rows |-> <<>>], dir, choice)
  IN  [ok |-> got.ok, rows |-> SortByKey(got.rows)]

(***************************************************************************)
(* main: normalisation, pivot, to_csv, archives.                           *)
(***************************************************************************)
\* the pattern left in place
NormalizeLibrarySkipped(rows, pattern) == rows

\* df['library'] = df['library'].str.replace(pattern, '', regex=False)
NormalizeLibrary(rows, pattern) ==
  [i \in 1..Len(rows) |->
     [rows[i] EXCEPT !.library = Replace(rows[i].library, pattern)]]

Interval(row) == [chr |-> row.chr, start |-> row.start, end |-> row.end]

IntervalLess(a, b) ==
  \/ StrLess(a.chr.s, b.chr.s)
  \/ /\ a.chr = b.chr
     /\ \/ a.start.m < b.start.m
        \/ a.start = b.start /\ a.end.m < b.end.m

RECURSIVE SortedLibraries(_)
SortedLibraries(S) ==
  IF S = {} THEN <<>>
  ELSE LET least == CHOOSE x \in S : \A y \in S : x = y \/ StrLess(x, y)
       IN  <<least>> \o SortedLibraries(S \ {least})

RECURSIVE SortedIntervals(_)
SortedIntervals(S) ==
  IF S = {} THEN <<>>
  ELSE LET least == CHOOSE x \in S : \A y \in S : x = y \/ IntervalLess(x, y)
       IN  <<least>> \o SortedIntervals(S \ {least})

\* pivot raises ValueError when an (index, columns) pair occurs twice
HasDuplicateKey(rows) ==
  \E i, j \in 1..Len(rows) :
    /\ i < j
    /\ rows[i].library = rows[j].library
    /\ Interval(rows[i]) = Interval(rows[j])

\* the cell taken from any library's row of the interval
PivotCellAnyLibrary(rows, iv, lib) ==
  IF \E i \in 1..Len(rows) : Interval(rows[i]) = iv
  THEN (CHOOSE r \in {rows[i] : i \in 1..Len(rows)} : Interval(r) = iv).value
  ELSE NaN

\* the cell of the pivot at (interval, library)
PivotCell(rows, iv, lib) ==
  IF \E i \in 1..Len(rows) : Interval(rows[i]) = iv /\ rows[i].library = lib
  THEN (CHOOSE r \in {rows[i] : i \in 1..Len(rows)} :
          Interval(r) = iv /\ r.library = lib).value
  ELSE NaN

\* df.pivot(index=["chr","start","end"], columns="library", values=...).reset_index()
Pivot(rows) ==
  LET cols == SortedLibraries({rows[i].library : i \in 1..Len(rows)})
      ivs  == SortedIntervals({Interval(rows[i]) : i \in 1..Len(rows)})
  IN  [ok      |-> ~HasDuplicateKey(rows),
       columns |-> cols,
       rows    |-> [k \in 1..Len(ivs) |->
                      [chr |-> ivs[k].chr, start |-> ivs[k].start,
                       end |-> ivs[k].end,
                       cells |-> [c \in 1..Len(cols) |->
                                    PivotCell(rows, ivs[k], cols[c])]]]]

RECURSIVE NatText(_)
NatText(n) ==
  IF n < 10 THEN <<Digits[n + 1]>>
  ELSE NatText(n \div 10) \o <<Digits[(n % 10) + 1]>>

IntText(n) == IF n < 0 THEN <<"-">> \o NatText(0 - n) ELSE NatText(n)

RECURSIVE PadLeft(_, _)
PadLeft(ds, width) == IF Len(ds) >= width THEN ds ELSE PadLeft(<<"0">> \o ds, width)

\* the text to_csv writes for a float m / 10^e
FloatText(mant, exp) ==
  LET mag == IF mant < 0 THEN 0 - mant ELSE mant
      ds  == PadLeft(NatText(mag), exp + 1)
      ip  == SubSeq(ds, 1, Len(ds) - exp)
      fp  == SubSeq(ds, Len(ds) - exp + 1, Len(ds))
  IN  (IF mant < 0 THEN <<"-">> ELSE <<>>) \o ip \o <<".">>
        \o (IF exp = 0 THEN <<"0">> ELSE fp)

\* the text to_csv writes for a cell: a missing value is written empty
CellText(v) ==
  IF v.kind = "nan" THEN <<>>
  ELSE IF v.kind = "str" THEN v.s
  ELSE IF v.kind = "int" THEN IntText(v.m)
  ELSE FloatText(v.m, v.e)

TfHeader ==
  <<<<"l", "i", "b", "r", "a", "r", "y">>, <<"t", "u", "m", "o", "r", "_", "f", "r", "a",
      "c", "t", "i", "o", "n">>, <<"p", "l", "o", "i", "d", "y">>, <<"g", "e", "n", "d",
      "e", "r">>,
    <<"C", "h", "r", "Y", "_", "c", "o", "v", "e", "r", "a", "g", "e", "_", "f", "r",
        "a", "c", "t", "i", "o", "n">>, <<"C", "h", "r", "X", "_", "m", "e", "d", "i",
        "a", "n", "_", "l", "o", "g", "_", "r", "a", "t", "i", "o">>>>

\* tf_data.to_csv(..., sep="\t", index=False)
TfCsv(rows) ==
  [header |-> TfHeader,
   rows   |-> [i \in 1..Len(rows) |->
                 <<rows[i].library, CellText(rows[i].tumor_fraction),
                   CellText(rows[i].ploidy), CellText(rows[i].gender),
                   CellText(rows[i].ChrY_coverage_fraction),
                   CellText(rows[i].ChrX_median_log_ratio)>>]]

\* cna_data_*.to_csv(..., sep="\t", index=False)
LongCsv(rows, choice) ==
  [header |-> <<<<"l", "i", "b", "r", "a", "r", "y">>, ChrCol, StartCol, EndCol, choice>>,
   rows   |-> [i \in 1..Len(rows) |->
                 <<rows[i].library, CellText(rows[i].chr), CellText(rows[i].start),
                   CellText(rows[i].end), CellText(rows[i].value)>>]]

\* cna_matrix_*.to_csv(..., sep="\t", index=False)
MatrixCsv(matrix) ==
  [header |-> <<ChrCol, StartCol, EndCol>> \o matrix.columns,
   rows   |-> [k \in 1..Len(matrix.rows) |->
                 <<CellText(matrix.rows[k].chr), CellText(matrix.rows[k].start),
                   CellText(matrix.rows[k].end)>>
                 \o [c \in 1..Len(matrix.rows[k].cells) |->
                       CellText(matrix.rows[k].cells[c])]]]

\* zipf.write(path) without arcname: the entry keeps its directory prefix
ZipEntryWithPath(file) ==
  [arcname |-> <<"r", "e", "s", "u", "l", "t", "s", "/">> \o file.name, file |-> file]

\* zipf.write(path, arcname=file_name): a directory is stored under file_name + "/"
ZipEntry(file) ==
  [arcname |-> IF file.isfile THEN file.name ELSE file.name \o <<"/">>,
   file    |-> file]

RECURSIVE ZipLoop(_, _)
\* the loop of create_params_zip / create_cna_seg_zip: the first match of each folder
ZipLoop(entries, suffix) ==
  IF entries = <<>> THEN <<>>
  ELSE LET e   == Head(entries)
           idx == FirstMatch(e.files, suffix)
       IN  (IF e.isdir /\ idx # 0 THEN <<ZipEntry(e.files[idx])>> ELSE <<>>)
             \o ZipLoop(Tail(entries), suffix)

create_params_zip(dir) == ZipLoop(dir, ParamsSuffix)

create_cna_seg_zip(dir) == ZipLoop(dir, CnaSuffix)

(***************************************************************************)
(* The inputs explored: results directories and command-line arguments.    *)
(***************************************************************************)
TextFile(name, lines) ==
  [name |-> name, isfile |-> TRUE, lines |-> lines, header |-> <<>>, rows |-> <<>>]

SegFile(name, header, rows) ==
  [name |-> name, isfile |-> TRUE, lines |-> <<>>, header |-> header, rows |-> rows]

\* a directory inside a sample folder
SubDir(name) ==
  [name |-> name, isfile |-> FALSE, lines |-> <<>>, header |-> <<>>, rows |-> <<>>]

Folder(name, files) == [name |-> name, isdir |-> TRUE, files |-> files]

PlainEntry(name) == [name |-> name, isdir |-> FALSE, files |-> <<>>]

DefaultPattern == <<".", "b", "a", "m">>

Patterns == {DefaultPattern, <<"-", "b">>}

FolderNames == {<<"a", ".", "b", "a", "m">>, <<"a", "-", "b", ".", "b", "a", "m">>, <<"a">>}

ParamsGood == <<<<"T", "u", "m", "o", "r", " ", "F", "r", "a", "c", "t", "i", "o", "n",
    ":", " ", "0", ".", "5">>, <<"P", "l", "o", "i", "d", "y", ":", " ", "2", ".", "1",
    "0">>, <<"G", "e", "n", "d", "e", "r", ":", " ", "m", "a", "l", "e">>>>

ParamsNA == <<<<"G", "e", "n", "d", "e", "r", ":", " ", "N", "A">>, <<"T", "u", "m", "o",
    "r", " ", "F", "r", "a", "c", "t", "i", "o", "n", ":", " ", "N", "A">>, <<"P", "l",
    "o", "i", "d", "y", ":", " ", "2">>>>

\* a data row of a .cna.seg file, by column meaning
SegRec(chr, start, end, logR, cn) ==
  [chr |-> Str(chr), start |-> IntCell(start), end |-> IntCell(end), logR |-> logR, cn |-> cn]

SegRecs ==
  <<SegRec(<<"1">>, 0, 10, Float(-5, 2), Float(3, 1)),
    SegRec(<<"1">>, 0, 10, Float(7, 1), NaN),
    SegRec(<<"1", "0">>, 5, 20, Float(12, 2), Float(-1, 0)),
    SegRec(<<"2">>, 0, 10, NaN, Float(25, 2))>>

\* the headers tried for the file of library lib
Headers(lib) ==
  {<<ChrCol, StartCol, EndCol, LogRColumn(lib, LogR), LogRColumn(lib, LogRCopyNumber)>>,
   <<LogRColumn(lib, LogRCopyNumber), EndCol, StartCol, ChrCol>>,
   <<StartCol, EndCol, LogRColumn(lib, LogR), LogRColumn(lib, LogRCopyNumber)>>,
   <<ChrCol, StartCol, EndCol, LogRColumn(<<"o", "t", "h", "e", "r">>, LogR)>>}

StdHeader(lib) ==
  <<ChrCol, StartCol, EndCol, LogRColumn(lib, LogR), LogRColumn(lib, LogRCopyNumber)>>

\* the cells of rec in the column order of header
RowFor(header, rec) ==
  [i \in 1..Len(header) |->
     IF header[i] = ChrCol THEN rec.chr
     ELSE IF header[i] = StartCol THEN rec.start
     ELSE IF header[i] = EndCol THEN rec.end
     ELSE IF EndsWith(header[i], LogRCopyNumber) THEN rec.cn
     ELSE rec.logR]

SegOf(name, header, recs) ==
  SegFile(name, header, [i \in 1..Len(recs) |-> RowFor(header, recs[i])])

\* the data rows the layouts give the seg file of a folder
LayoutRecs(folder) ==
  IF folder = <<"a", ".", "b", "a", "m">> THEN <<SegRecs[1], SegRecs[3]>>
  ELSE IF folder = <<"a">> THEN <<SegRecs[4], SegRecs[2]>>
  ELSE <<SegRecs[1]>>

Shared == <<"s">>

\* what a sample folder may hold
FolderLayouts(name) ==
  {<<>>,
   <<TextFile(name \o ParamsSuffix, ParamsGood)>>,
   <<TextFile(<<"x", ".", "p", "a", "r", "a", "m", "s", ".", "t", "x", "t">>, ParamsNA),
       TextFile(name \o ParamsSuffix, ParamsGood)>>,
   <<TextFile(<<"n", "o", "t", "e", "s", ".", "t", "x", "t">>, <<>>),
     SegOf(name \o CnaSuffix, StdHeader(name), LayoutRecs(name)),
     TextFile(name \o ParamsSuffix, ParamsGood)>>,
   <<SegOf(Shared \o CnaSuffix, StdHeader(Shared), LayoutRecs(name))>>,
   <<TextFile(name \o ParamsSuffix, ParamsNA),
     SegOf(Shared \o CnaSuffix, StdHeader(Shared), LayoutRecs(name))>>,
   <<SubDir(name \o CnaSuffix), TextFile(name \o ParamsSuffix, ParamsNA)>>,
   <<SubDir(name \o ParamsSuffix)>>}

LayoutEntries ==
  {PlainEntry(n) : n \in FolderNames}
    \cup UNION {{Folder(n, fs) : fs \in FolderLayouts(n)} : n \in FolderNames}

RECURSIVE SeqsUpTo(_, _)
\* the sequences of at most n elements of S
SeqsUpTo(S, n) ==
  IF n = 0 THEN {<<>>}
  ELSE LET shorter == SeqsUpTo(S, n - 1)
       IN  shorter \cup
             {Append(l, e) : l \in {x \in shorter : Len(x) = n - 1}, e \in S}

\* a directory holds no name twice
DistinctNames(l) == \A i, j \in 1..Len(l) : i # j => l[i].name # l[j].name

\* results directories of every layout; the listing order of os.listdir is free
LayoutDirs == {l \in SeqsUpTo(LayoutEntries, MaxEntries) : DistinctNames(l)}

LinePool ==
  {<<"G", "e", "n", "d", "e", "r", ":", " ", "m", "a", "l", "e">>, <<"G", "e", "n", "d",
      "e", "r", ":", " ", "N", "A">>, <<"G", "e", "n", "d", "e", "r", ":", " ", "m", "a",
      "l", "e", ":", "x">>, <<"n", "o", "t", "e", ":", " ", "G", "e", "n", "d", "e", "r",
      ":", " ", "m", "a", "l", "e">>,
   <<"T", "u", "m", "o", "r", " ", "F", "r", "a", "c", "t", "i", "o", "n", ":", " ", "0",
       ".", "5">>, <<"T", "u", "m", "o", "r", " ", "F", "r", "a", "c", "t", "i", "o",
       "n", ":", " ", "N", "A">>, <<"T", "u", "m", "o", "r", " ", "F", "r", "a", "c",
       "t", "i", "o", "n", ":", " ", "0", ".", "5", "0", ":", "1">>,
   <<"P", "l", "o", "i", "d", "y", ":", " ", "N", "A">>, <<" ", "P", "l", "o", "i", "d",
       "y", ":", "\t", "2", ".", "1", "0", " ">>, <<"P", "l", "o", "i", "d", "y", ":",
       " ", "a", "b", "c">>,
   <<"C", "h", "r", "Y", " ", "c", "o", "v", "e", "r", "a", "g", "e", " ", "f", "r", "a",
       "c", "t", "i", "o", "n", ":", " ", "N", "A">>, <<"C", "h", "r", "Y", " ", "c",
       "o", "v", "e", "r", "a", "g", "e", " ", "f", "r", "a", "c", "t", "i", "o", "n",
       ":", " ", "0", ".", "0", "0", "1">>,
   <<"C", "h", "r", "X", " ", "m", "e", "d", "i", "a", "n", " ", "l", "o", "g", " ", "r",
       "a", "t", "i", "o", ":", " ", "N", "A">>, <<"C", "h", "r", "X", " ", "m", "e",
       "d", "i", "a", "n", " ", "l", "o", "g", " ", "r", "a", "t", "i", "o", ":", " ",
       "-", "0", ".", "2", "5">>,
   <<"S", "a", "m", "p", "l", "e", ":", " ", "s", "1">>}

\* one sample whose params file holds the given lines
LinesDir(lines) ==
  <<Folder(<<"a", ".", "b", "a", "m">>,
           <<TextFile(<<"a", ".", "b", "a", "m", ".", "p", "a", "r", "a", "m", "s", ".",
               "t", "x", "t">>, lines),
             SegOf(<<"a", ".", "b", "a", "m", ".", "c", "n", "a", ".", "s", "e", "g">>,
                 StdHeader(<<"a", ".", "b", "a", "m">>), <<SegRecs[1]>>)>>)>>

LinesDirs == {LinesDir(lines) : lines \in SeqsUpTo(LinePool, MaxLines)}

SegRecPool == {SegRecs[i] : i \in 1..Len(SegRecs)}

\* two samples: the first with any header and rows, the second a fixed file
SegDir(header, recs, name2, recs2) ==
  <<Folder(<<"a", ".", "b", "a", "m">>, <<SegOf(<<"a", ".", "b", "a", "m", ".", "c", "n",
      "a", ".", "s", "e", "g">>, header, recs)>>),
    Folder(<<"a">>, <<SegOf(name2, StdHeader(LibraryOfFile(name2)), recs2)>>)>>

SegDirs ==
  {SegDir(h, recs, n2, r2) :
     h \in Headers(<<"a", ".", "b", "a", "m">>), recs \in SeqsUpTo(SegRecPool, MaxRows),
     n2 \in {<<"a", ".", "c", "n", "a", ".", "s", "e", "g">>, <<"a", ".", "b", "a", "m",
         ".", "c", "n", "a", ".", "s", "e", "g">>},
     r2 \in {<<SegRecs[1]>>, <<SegRecs[4], SegRecs[3]>>}}

(***************************************************************************)
(* main(): one action per statement, in the order of MainOrder.            *)
(***************************************************************************)
\* tf.txt written as soon as the parameter table is normalised
MainOrderWritesEarly ==
  <<"makedirs",
    "extract_tf", "normalize_tf", "write_tf",
    "extract_logR", "normalize_logR",
    "extract_logR_Copy_Number", "normalize_logR_Copy_Number",
    "pivot_logR", "pivot_logR_Copy_Number",
    "write_logR_long", "write_logR_Copy_Number_long",
    "write_logR_matrix", "write_logR_Copy_Number_matrix",
    "if_create_zips", "create_params_zip", "create_cna_seg_zip">>

MainOrder ==
  <<"makedirs",
    "extract_tf", "normalize_tf",
    "extract_logR", "normalize_logR",
    "extract_logR_Copy_Number", "normalize_logR_Copy_Number",
    "pivot_logR", "pivot_logR_Copy_Number",
    "write_tf", "write_logR_long", "write_logR_Copy_Number_long",
    "write_logR_matrix", "write_logR_Copy_Number_matrix",
    "if_create_zips", "create_params_zip", "create_cna_seg_zip">>

NoMatrix == [ok |-> TRUE, columns |-> <<>>, rows |-> <<>>]

Init ==
  /\ \/ /\ results_dir \in LayoutDirs
        /\ bam_name_pattern \in Patterns
        /\ create_zips \in BOOLEAN
     \/ /\ results_dir \in LinesDirs
        /\ bam_name_pattern = DefaultPattern
        /\ create_zips = FALSE
     \/ /\ results_dir \in SegDirs
        /\ bam_name_pattern \in Patterns
        /\ create_zips = TRUE
  /\ pc = 1
  /\ status = "running"
  /\ log = <<>>
  /\ tf_data = <<>>
  /\ cna_data_logR = <<>>
  /\ cna_data_logR_Copy_Number = <<>>
  /\ cna_matrix_logR = NoMatrix
  /\ cna_matrix_logR_Copy_Number = NoMatrix
  /\ output_dir = <<>>

args == <<results_dir, bam_name_pattern, create_zips>>

tables == <<tf_data, cna_data_logR, cna_data_logR_Copy_Number>>

matrices == <<cna_matrix_logR, cna_matrix_logR_Copy_Number>>

At(stmt) == status = "running" /\ pc <= Len(MainOrder) /\ MainOrder[pc] = stmt

\* the statement completed: on to the next one, or main returns
Advance(stmt) ==
  /\ pc' = pc + 1
  /\ status' = IF pc + 1 > Len(MainOrder) THEN "done" ELSE "running"
  /\ log' = Append(log, stmt)

\* the statement raised: the exception ends the run
Raise == pc' = pc /\ status' = "failed" /\ log' = log

MakeDirs ==
  /\ At("makedirs")
  /\ Advance("makedirs")
  /\ UNCHANGED <<args, tables, matrices, output_dir>>

ExtractTf ==
  /\ At("extract_tf")
  /\ IF extract_tf_data(results_dir).ok
     THEN tf_data' = extract_tf_data(results_dir).rows /\ Advance("extract_tf")
     ELSE tf_data' = tf_data /\ Raise
  /\ UNCHANGED <<args, cna_data_logR, cna_data_logR_Copy_Number, matrices, output_dir>>

NormalizeTf ==
  /\ At("normalize_tf")
  /\ tf_data' = NormalizeLibrary(tf_data, bam_name_pattern)
  /\ Advance("normalize_tf")
  /\ UNCHANGED <<args, cna_data_logR, cna_data_logR_Copy_Number, matrices, output_dir>>

ExtractLogR ==
  /\ At("extract_logR")
  /\ IF extract_cna_data(results_dir, LogR).ok
     THEN /\ cna_data_logR' = extract_cna_data(results_dir, LogR).rows
          /\ Advance("extract_logR")
     ELSE cna_data_logR' = cna_data_logR /\ Raise
  /\ UNCHANGED <<args, tf_data, cna_data_logR_Copy_Number, matrices, output_dir>>

NormalizeLogR ==
  /\ At("normalize_logR")
  /\ cna_data_logR' = NormalizeLibrary(cna_data_logR, bam_name_pattern)
  /\ Advance("normalize_logR")
  /\ UNCHANGED <<args, tf_data, cna_data_logR_Copy_Number, matrices, output_dir>>

ExtractLogRCopyNumber ==
  /\ At("extract_logR_Copy_Number")
  /\ IF extract_cna_data(results_dir, LogRCopyNumber).ok
     THEN /\ cna_data_logR_Copy_Number' =
               extract_cna_data(results_dir, LogRCopyNumber).rows
          /\ Advance("extract_logR_Copy_Number")
     ELSE cna_data_logR_Copy_Number' = cna_data_logR_Copy_Number /\ Raise
  /\ UNCHANGED <<args, tf_data, cna_data_logR, matrices, output_dir>>

NormalizeLogRCopyNumber ==
  /\ At("normalize_logR_Copy_Number")
  /\ cna_data_logR_Copy_Number' =
       NormalizeLibrary(cna_data_logR_Copy_Number, bam_name_pattern)
  /\ Advance("normalize_logR_Copy_Number")
  /\ UNCHANGED <<args, tf_data, cna_data_logR, matrices, output_dir>>

PivotLogR ==
  /\ At("pivot_logR")
  /\ IF Pivot(cna_data_logR).ok
     THEN cna_matrix_logR' = Pivot(cna_data_logR) /\ Advance("pivot_logR")
     ELSE cna_matrix_logR' = cna_matrix_logR /\ Raise
  /\ UNCHANGED <<args, tables, cna_matrix_logR_Copy_Number, output_dir>>

PivotLogRCopyNumber ==
  /\ At("pivot_logR_Copy_Number")
  /\ IF Pivot(cna_data_logR_Copy_Number).ok
     THEN /\ cna_matrix_logR_Copy_Number' = Pivot(cna_data_logR_Copy_Number)
          /\ Advance("pivot_logR_Copy_Number")
     ELSE cna_matrix_logR_Copy_Number' = cna_matrix_logR_Copy_Number /\ Raise
  /\ UNCHANGED <<args, tables, cna_matrix_logR, output_dir>>

\* a file written into output_dir, in the order of writing
Written(name, kind, content) == [name |-> name, kind |-> kind, content |-> content]

WriteTf ==
  /\ At("write_tf")
  /\ output_dir' = Append(output_dir, Written("tf.txt", "table", TfCsv(tf_data)))
  /\ Advance("write_tf")
  /\ UNCHANGED <<args, tables, matrices>>

WriteLogRLong ==
  /\ At("write_logR_long")
  /\ output_dir' = Append(output_dir,
       Written("cna_logR_long.txt", "table", LongCsv(cna_data_logR, LogR)))
  /\ Advance("write_logR_long")
  /\ UNCHANGED <<args, tables, matrices>>

WriteLogRCopyNumberLong ==
  /\ At("write_logR_Copy_Number_long")
  /\ output_dir' = Append(output_dir,
       Written("cna_logR_Copy_Number_long.txt", "table",
               LongCsv(cna_data_logR_Copy_Number, LogRCopyNumber)))
  /\ Advance("write_logR_Copy_Number_long")
  /\ UNCHANGED <<args, tables, matrices>>

WriteLogRMatrix ==
  /\ At("write_logR_matrix")
  /\ output_dir' = Append(output_dir,
       Written("cna_logR_matrix.txt", "table", MatrixCsv(cna_matrix_logR)))
  /\ Advance("write_logR_matrix")
  /\ UNCHANGED <<args, tables, matrices>>

WriteLogRCopyNumberMatrix ==
  /\ At("write_logR_Copy_Number_matrix")
  /\ output_dir' = Append(output_dir,
       Written("cna_logR_Copy_Number_matrix.txt", "table",
               MatrixCsv(cna_matrix_logR_Copy_Number)))
  /\ Advance("write_logR_Copy_Number_matrix")
  /\ UNCHANGED <<args, tables, matrices>>

\* "if args.create_zips:" : without the flag main returns here
IfCreateZips ==
  /\ At("if_create_zips")
  /\ IF create_zips THEN Advance("if_create_zips")
     ELSE pc' = pc /\ status' = "done" /\ log' = Append(log, "if_create_zips")
  /\ UNCHANGED <<args, tables, matrices, output_dir>>

CreateParamsZip ==
  /\ At("create_params_zip")
  /\ output_dir' = Append(output_dir,
       Written("params.zip", "zip", create_params_zip(results_dir)))
  /\ Advance("create_params_zip")
  /\ UNCHANGED <<args, tables, matrices>>

CreateCnaSegZip ==
  /\ At("create_cna_seg_zip")
  /\ output_dir' = Append(output_dir,
       Written("cna_seg.zip", "zip", create_cna_seg_zip(results_dir)))
  /\ Advance("create_cna_seg_zip")
  /\ UNCHANGED <<args, tables, matrices>>

Next ==
  \/ MakeDirs
  \/ ExtractTf
  \/ NormalizeTf
  \/ ExtractLogR
  \/ NormalizeLogR
  \/ ExtractLogRCopyNumber
  \/ NormalizeLogRCopyNumber
  \/ PivotLogR
  \/ PivotLogRCopyNumber
  \/ WriteTf
  \/ WriteLogRLong
  \/ WriteLogRCopyNumberLong
  \/ WriteLogRMatrix
  \/ WriteLogRCopyNumberMatrix
  \/ IfCreateZips
  \/ CreateParamsZip
  \/ CreateCnaSegZip

Spec == Init /\ [][Next]_vars

(***************************************************************************)
(* Properties.  What a property expects is computed from results_dir and   *)
(* the arguments directly, not through the operators that model the code.  *)
(***************************************************************************)
\* the statement that completed last
LastDone == IF log = <<>> THEN "none" ELSE log[Len(log)]

Completed(stmt) == \E i \in 1..Len(log) : log[i] = stmt

\* the file of output_dir with the given name was written
IsWritten(name) == \E i \in 1..Len(output_dir) : output_dir[i].name = name

ContentOf(name) ==
  (CHOOSE f \in {output_dir[i] : i \in 1..Len(output_dir)} : f.name = name).content

\* entry e of the results directory is a subfolder holding a "*.params.txt"
HoldsParams(e) ==
  /\ results_dir[e].isdir
  /\ \E f \in 1..Len(results_dir[e].files) :
       EndsWith(results_dir[e].files[f].name, ParamsSuffix)

SampleSlots == {e \in 1..Len(results_dir) : HoldsParams(e)}

\* the params file extract_tf_data reads in entry e: the first in listing order
ParamsFileOf(e) ==
  LET fs == results_dir[e].files
  IN  fs[CHOOSE f \in 1..Len(fs) :
           /\ EndsWith(fs[f].name, ParamsSuffix)
           /\ \A g \in 1..(f - 1) : ~EndsWith(fs[g].name, ParamsSuffix)]

\* the record of tf_data for the library
TfRecord(library) ==
  CHOOSE r \in {tf_data[i] : i \in 1..Len(tf_data)} : r.library = library

\* C1: extract_tf_data returns exactly one record per immediate subfolder that
\* holds a file ending in ".params.txt", none for other subfolders or for plain
\* entries; library is the subfolder name; records ascend by library.
C1_OneRecordPerSample ==
  LastDone = "extract_tf" =>
    /\ Len(tf_data) = Cardinality(SampleSlots)
    /\ {tf_data[i].library : i \in 1..Len(tf_data)}
         = {results_dir[e].name : e \in SampleSlots}
    /\ \A i, j \in 1..Len(tf_data) :
         i < j => StrLess(tf_data[i].library, tf_data[j].library)

\* two samples listed in descending order next to each other, both recorded
C1_Witness ==
  /\ LastDone = "extract_tf"
  /\ Len(tf_data) = 2
  /\ Len(results_dir) = 2
  /\ StrLess(results_dir[2].name, results_dir[1].name)

\* a subfolder without a params file and a plain entry, skipped
C1_WitnessSkipped ==
  /\ LastDone = "extract_tf"
  /\ Len(tf_data) = 0
  /\ Len(results_dir) = 2
  /\ results_dir[1].isdir
  /\ ~results_dir[2].isdir

NumericFields ==
  {"tumor_fraction", "ploidy", "ChrY_coverage_fraction", "ChrX_median_log_ratio"}

LabelOf(field) ==
  IF field = "gender" THEN GenderLabel
  ELSE IF field = "tumor_fraction" THEN TumorFractionLabel
  ELSE IF field = "ploidy" THEN PloidyLabel
  ELSE IF field = "ChrY_coverage_fraction" THEN ChrYLabel
  ELSE ChrXLabel

\* the labels the if/elif chain tests before the label of field
EarlierFields(field) ==
  IF field = "gender" THEN {}
  ELSE IF field = "tumor_fraction" THEN {"gender"}
  ELSE IF field = "ploidy" THEN {"gender", "tumor_fraction"}
  ELSE IF field = "ChrY_coverage_fraction"
       THEN {"gender", "tumor_fraction", "ploidy"}
  ELSE {"gender", "tumor_fraction", "ploidy", "ChrY_coverage_fraction"}

\* line i of the file carries the label of field (and of no label tested earlier)
Carries(file, i, field) ==
  /\ Contains(file.lines[i], LabelOf(field))
  /\ \A g \in EarlierFields(field) : ~Contains(file.lines[i], LabelOf(g))

\* line i is the last line of the file carrying the label of field
LastCarrying(file, i, field) ==
  /\ Carries(file, i, field)
  /\ \A k \in (i + 1)..Len(file.lines) : ~Carries(file, k, field)

\* the value read on a line: the text between its first and second colon, trimmed
ValueRead(line) == Strip(SplitColon1(line))

\* the field of the sample's record is NaN when the last line carrying the label
\* of the field reads NA
NAIsMissing(fields) ==
  LastDone = "extract_tf" =>
    \A e \in SampleSlots : \A field \in fields :
      \A i \in 1..Len(ParamsFileOf(e).lines) :
        (LastCarrying(ParamsFileOf(e), i, field)
           /\ ValueRead(ParamsFileOf(e).lines[i]) = NA)
        => TfRecord(results_dir[e].name)[field] = NaN

\* C2 as stated: a value NA under any of the five labels, Gender included,
\* gives the missing sentinel.
C2_Original == NAIsMissing(NumericFields \cup {"gender"})

\* C2 amended: a value NA under Tumor Fraction, Ploidy, ChrY coverage fraction or
\* ChrX median log ratio gives the missing sentinel (never "NA" or zero); under
\* Gender it is recorded as the string "NA".
C2_NumericNAIsMissing ==
  /\ NAIsMissing(NumericFields)
  /\ LastDone = "extract_tf" =>
       \A e \in SampleSlots :
         \A i \in 1..Len(ParamsFileOf(e).lines) :
           (LastCarrying(ParamsFileOf(e), i, "gender")
              /\ ValueRead(ParamsFileOf(e).lines[i]) = NA)
           => TfRecord(results_dir[e].name).gender = Str(NA)

\* a params file with "Tumor Fraction: NA" and "Gender: NA", read
C2_Witness ==
  /\ LastDone = "extract_tf"
  /\ \E e \in SampleSlots :
       /\ \E i \in 1..Len(ParamsFileOf(e).lines) :
            /\ LastCarrying(ParamsFileOf(e), i, "tumor_fraction")
            /\ ValueRead(ParamsFileOf(e).lines[i]) = NA
       /\ \E i \in 1..Len(ParamsFileOf(e).lines) :
            /\ LastCarrying(ParamsFileOf(e), i, "gender")
            /\ ValueRead(ParamsFileOf(e).lines[i]) = NA
       /\ TfRecord(results_dir[e].name).tumor_fraction = NaN

\* the whole text after the first colon of a line, trimmed
WholeValue(line) == Strip(AfterFirstColon(line))

\* C9 as stated: the value recorded for a label is the whole text after the first
\* colon of the last line carrying it, trimmed (a number for the numeric fields,
\* missing for NA), also when the line holds further colons; a field no line
\* carries stays missing.
C9_WholeTextAfterFirstColon ==
  LastDone = "extract_tf" =>
    \A e \in SampleSlots :
      LET file == ParamsFileOf(e)
          rec  == TfRecord(results_dir[e].name)
      IN  /\ \A i \in 1..Len(file.lines) :
               LastCarrying(file, i, "gender")
                 => rec.gender = Str(WholeValue(file.lines[i]))
          /\ \A field \in NumericFields : \A i \in 1..Len(file.lines) :
               LastCarrying(file, i, field)
                 => IF WholeValue(file.lines[i]) = NA THEN rec[field] = NaN
                    ELSE ParseFloat(WholeValue(file.lines[i])).ok
                           => rec[field] = ParseFloat(WholeValue(file.lines[i])).val
          /\ \A field \in NumericFields \cup {"gender"} :
               (\A i \in 1..Len(file.lines) : ~Carries(file, i, field))
                 => rec[field] = NaN

\* position of the column named col in the header, 0 if absent
PositionOf(header, col) ==
  IF \E i \in 1..Len(header) : header[i] = col
  THEN CHOOSE i \in 1..Len(header) :
         header[i] = col /\ \A j \in 1..(i - 1) : header[j] # col
  ELSE 0

\* file f of entry e is a ".cna.seg" file of an immediate subfolder
IsSegFile(e, f) ==
  /\ results_dir[e].isdir
  /\ results_dir[e].files[f].isfile
  /\ EndsWith(results_dir[e].files[f].name, CnaSuffix)

\* the library of a ".cna.seg" file: its name without ".cna.seg"
SegLibrary(e, f) == Replace(results_dir[e].files[f].name, CnaSuffix)

\* the header of the file holds the column "<library>.<selector>"
HasSelector(e, f, selector) ==
  PositionOf(results_dir[e].files[f].header,
             SegLibrary(e, f) \o <<".">> \o selector) # 0

\* the data rows <<e, f, i>> of the seg files that hold the selector column
RowSlots(selector) ==
  UNION {UNION {{<<e, f, i>> : i \in 1..Len(results_dir[e].files[f].rows)} :
                  f \in {g \in 1..Len(results_dir[e].files) :
                           IsSegFile(e, g) /\ HasSelector(e, g, selector)}} :
           e \in 1..Len(results_dir)}

\* the long-format row that data row <<e, f, i>> must give
LongRowOf(slot, selector) ==
  LET file == results_dir[slot[1]].files[slot[2]]
      row  == file.rows[slot[3]]
  IN  [library |-> SegLibrary(slot[1], slot[2]),
       chr     |-> row[PositionOf(file.header, ChrCol)],
       start   |-> row[PositionOf(file.header, StartCol)],
       end     |-> row[PositionOf(file.header, EndCol)],
       value   |-> row[PositionOf(file.header,
                                  SegLibrary(slot[1], slot[2]) \o <<".">> \o selector)]]

Occurrences(table, r) == Cardinality({i \in 1..Len(table) : table[i] = r})

\* the table returned holds the rows of the files with the selector column, each
\* as often as it occurs in those files, and nothing else
CarriesEveryRow(table, selector) ==
  /\ Len(table) = Cardinality(RowSlots(selector))
  /\ \A slot \in RowSlots(selector) :
       Occurrences(table, LongRowOf(slot, selector))
         = Cardinality({s \in RowSlots(selector) :
                          LongRowOf(s, selector) = LongRowOf(slot, selector)})

\* a seg file with the selector column lacks one of chr, start, end (KeyError)
LacksKeyColumn(selector) ==
  \E e \in 1..Len(results_dir) : \E f \in 1..Len(results_dir[e].files) :
    /\ IsSegFile(e, f)
    /\ HasSelector(e, f, selector)
    /\ \E c \in {ChrCol, StartCol, EndCol} :
         PositionOf(results_dir[e].files[f].header, c) = 0

\* C3: every data row of every ".cna.seg" file whose header holds
\* "<library>.<selector>" appears exactly once in the table extract_cna_data
\* returns, library, chr, start, end and value unchanged; a file without the
\* column gives no row and does not stop the extraction.
C3_EveryRowOnce ==
  /\ LastDone = "extract_logR" => CarriesEveryRow(cna_data_logR, LogR)
  /\ LastDone = "extract_logR_Copy_Number"
       => CarriesEveryRow(cna_data_logR_Copy_Number, LogRCopyNumber)
  /\ (status = "failed" /\ MainOrder[pc] = "extract_logR") => LacksKeyColumn(LogR)
  /\ (status = "failed" /\ MainOrder[pc] = "extract_logR_Copy_Number")
       => LacksKeyColumn(LogRCopyNumber)

\* one file without the logR column skipped, another file's rows extracted
C3_Witness ==
  /\ LastDone = "extract_logR"
  /\ Len(cna_data_logR) >= 2
  /\ \E e \in 1..Len(results_dir) : \E f \in 1..Len(results_dir[e].files) :
       IsSegFile(e, f) /\ ~HasSelector(e, f, LogR)
          /\ Len(results_dir[e].files[f].rows) > 0

SameKey(a, b) ==
  a.library = b.library /\ a.chr = b.chr /\ a.start = b.start /\ a.end = b.end

UniqueKeys(table) ==
  \A i, j \in 1..Len(table) : i # j => ~SameKey(table[i], table[j])

\* C4 as stated: (library, chr, start, end) is unique in each long-format table,
\* as extracted and after the normalisation, for every results directory, so the
\* pivot never meets a duplicate key.
C4_KeyUnique ==
  /\ UniqueKeys(cna_data_logR)
  /\ UniqueKeys(cna_data_logR_Copy_Number)
  /\ status = "failed"
       => MainOrder[pc] \notin {"pivot_logR", "pivot_logR_Copy_Number"}

\* the column of the matrix file named library, counted over the library columns
MatrixColumns(matrix, library) ==
  {c \in 4..Len(matrix.header) : matrix.header[c] = library}

\* the rows of the matrix file for the interval of a long-table line
MatrixRows(matrix, line) ==
  {k \in 1..Len(matrix.rows) :
     matrix.rows[k][1] = line[2] /\ matrix.rows[k][2] = line[3]
       /\ matrix.rows[k][3] = line[4]}

\* the written long table and matrix agree
LongMatchesMatrix(long, matrix) ==
  /\ \A i \in 1..Len(long.rows) :
       /\ Cardinality(MatrixRows(matrix, long.rows[i])) = 1
       /\ Cardinality(MatrixColumns(matrix, long.rows[i][1])) = 1
       /\ \A k \in MatrixRows(matrix, long.rows[i]) :
            \A c \in MatrixColumns(matrix, long.rows[i][1]) :
              matrix.rows[k][c] = long.rows[i][5]
  /\ \A k \in 1..Len(matrix.rows) : \A c \in 4..Len(matrix.header) :
       (~\E i \in 1..Len(long.rows) :
           k \in MatrixRows(matrix, long.rows[i]) /\ matrix.header[c] = long.rows[i][1])
       => matrix.rows[k][c] = <<>>
  /\ Len(matrix.rows)
       = Cardinality({<<long.rows[i][2], long.rows[i][3], long.rows[i][4]>> :
                        i \in 1..Len(long.rows)})
  /\ Len(matrix.header) - 3
       = Cardinality({long.rows[i][1] : i \in 1..Len(long.rows)})
  /\ \A k \in 1..Len(matrix.rows) : Len(matrix.rows[k]) = Len(matrix.header)

\* C5: the long-format and the wide-format table written by one run agree: each
\* long row's value is the cell of the one matrix row of its interval under the
\* column of its library, every other cell is missing, and the matrix has one
\* row per interval and one column per library of the long table.
C5_LongWideConsistent ==
  /\ (IsWritten("cna_logR_long.txt") /\ IsWritten("cna_logR_matrix.txt"))
       => LongMatchesMatrix(ContentOf("cna_logR_long.txt"),
                            ContentOf("cna_logR_matrix.txt"))
  /\ (IsWritten("cna_logR_Copy_Number_long.txt")
        /\ IsWritten("cna_logR_Copy_Number_matrix.txt"))
       => LongMatchesMatrix(ContentOf("cna_logR_Copy_Number_long.txt"),
                            ContentOf("cna_logR_Copy_Number_matrix.txt"))

\* a matrix of two libraries and three intervals, with cells filled and cells missing
C5_Witness ==
  /\ IsWritten("cna_logR_matrix.txt")
  /\ Len(ContentOf("cna_logR_matrix.txt").header) = 5
  /\ Len(ContentOf("cna_logR_matrix.txt").rows) >= 3
  /\ Len(ContentOf("cna_logR_long.txt").rows) >= 4
  /\ \E k \in 1..Len(ContentOf("cna_logR_matrix.txt").rows) :
       /\ ContentOf("cna_logR_matrix.txt").rows[k][4] = <<>>
       /\ ContentOf("cna_logR_matrix.txt").rows[k][5] # <<>>

AllTablesWritten ==
  /\ IsWritten("tf.txt")
  /\ IsWritten("cna_logR_long.txt")
  /\ IsWritten("cna_logR_Copy_Number_long.txt")
  /\ IsWritten("cna_logR_matrix.txt")
  /\ IsWritten("cna_logR_Copy_Number_matrix.txt")

\* the library column of a written tf.txt or long table
LibraryColumn(name) ==
  [i \in 1..Len(ContentOf(name).rows) |-> ContentOf(name).rows[i][1]]

InColumn(name, library) ==
  \E i \in 1..Len(ContentOf(name).rows) : ContentOf(name).rows[i][1] = library

InHeader(name, library) ==
  \E c \in 4..Len(ContentOf(name).header) : ContentOf(name).header[c] = library

\* the identifier with the pattern removed
Normalized(library) == Replace(library, bam_name_pattern)

\* subfolder e is a sample with a params file and with a seg file that holds both
\* selector columns and at least one data row
FullSample(e, f) ==
  /\ HoldsParams(e)
  /\ IsSegFile(e, f)
  /\ HasSelector(e, f, LogR)
  /\ HasSelector(e, f, LogRCopyNumber)
  /\ Len(results_dir[e].files[f].rows) > 0

\* all four segmentation files report the library
InSegmentationFiles(library) ==
  /\ InColumn("cna_logR_long.txt", library)
  /\ InColumn("cna_logR_Copy_Number_long.txt", library)
  /\ InHeader("cna_logR_matrix.txt", library)
  /\ InHeader("cna_logR_Copy_Number_matrix.txt", library)

\* C6 as stated: all five files report a sample of subfolder F as F with the
\* pattern removed.
C6_Original ==
  AllTablesWritten =>
    \A e \in 1..Len(results_dir) : \A f \in 1..Len(results_dir[e].files) :
      FullSample(e, f) =>
        /\ InColumn("tf.txt", Normalized(results_dir[e].name))
        /\ InSegmentationFiles(Normalized(results_dir[e].name))

\* C6 amended: tf.txt reports the sample of subfolder F as F with the pattern
\* removed; the four segmentation files report it as the name of its ".cna.seg"
\* file with ".cna.seg" removed and then the pattern removed; the five agree when
\* that file name without ".cna.seg" is F.
C6_SameLibraryWhenFileNamedAfterFolder ==
  AllTablesWritten =>
    \A e \in 1..Len(results_dir) : \A f \in 1..Len(results_dir[e].files) :
      FullSample(e, f) =>
        /\ InColumn("tf.txt", Normalized(results_dir[e].name))
        /\ InSegmentationFiles(Normalized(SegLibrary(e, f)))
        /\ SegLibrary(e, f) = results_dir[e].name
             => InSegmentationFiles(Normalized(results_dir[e].name))

\* a sample whose folder name holds the pattern and whose seg file is named after
\* the folder, written to all five files
C6_Witness ==
  /\ AllTablesWritten
  /\ \E e \in 1..Len(results_dir) : \E f \in 1..Len(results_dir[e].files) :
       /\ FullSample(e, f)
       /\ SegLibrary(e, f) = results_dir[e].name
       /\ Normalized(results_dir[e].name) # results_dir[e].name

\* the archive entries of params.zip
ParamsZip == ContentOf("params.zip")

\* the place of sample e among the samples, in listing order
ZipPlace(e) == Cardinality({d \in SampleSlots : d <= e})

Preparation ==
  {"extract_tf", "normalize_tf", "extract_logR", "normalize_logR",
   "extract_logR_Copy_Number", "normalize_logR_Copy_Number",
   "pivot_logR", "pivot_logR_Copy_Number"}

TableWrites ==
  {"write_tf", "write_logR_long", "write_logR_Copy_Number_long",
   "write_logR_matrix", "write_logR_Copy_Number_matrix"}

ZipWrites == {"create_params_zip", "create_cna_seg_zip"}

\* every statement of S completed before the i-th completed statement
AllBefore(S, i) == \A s \in S : \E j \in 1..(i - 1) : log[j] = s

\* C8: no output file is written before the three extractions, the three
\* normalisations and both pivots have completed; the archives are written only
\* after the five tables and only with --create_zips; a run that fails leaves no
\* table and no archive.
C8_WritesAfterPreparation ==
  /\ \A i \in 1..Len(log) :
       /\ log[i] \in TableWrites \cup ZipWrites => AllBefore(Preparation, i)
       /\ log[i] \in ZipWrites => create_zips /\ AllBefore(TableWrites, i)
  /\ Len(output_dir)
       = Cardinality({i \in 1..Len(log) : log[i] \in TableWrites \cup ZipWrites})
  /\ \A i \in 1..Len(output_dir) :
       output_dir[i].kind = "zip"
         => /\ create_zips
            /\ i > 5
            /\ \A j \in 1..5 : output_dir[j].kind = "table"
  /\ status = "failed" => output_dir = <<>>

\* a run with --create_zips that wrote the five tables and both archives
C8_Witness ==
  /\ status = "done"
  /\ Len(output_dir) = 7
  /\ output_dir[7].name = "cna_seg.zip"

\* a run that failed in a pivot
C8_WitnessFailed ==
  /\ status = "failed"
  /\ MainOrder[pc] = "pivot_logR_Copy_Number"
  /\ Completed("pivot_logR")

NonDecreasing(column) ==
  \A i, j \in 1..Len(column) : i < j => ~StrLess(column[j], column[i])

\* C10 as stated: the rows of tf.txt and of both long tables ascend by the library
\* identifier written in the file.
C10_Original ==
  /\ IsWritten("tf.txt") => NonDecreasing(LibraryColumn("tf.txt"))
  /\ IsWritten("cna_logR_long.txt") => NonDecreasing(LibraryColumn("cna_logR_long.txt"))
  /\ IsWritten("cna_logR_Copy_Number_long.txt")
       => NonDecreasing(LibraryColumn("cna_logR_Copy_Number_long.txt"))

RECURSIVE Ascending(_)
\* the strings of S in ascending order
Ascending(S) ==
  IF S = {} THEN <<>>
  ELSE LET least == CHOOSE x \in S : \A y \in S : ~StrLess(y, x)
       IN  <<least>> \o Ascending(S \ {least})

RECURSIVE Repeated(_, _)
Repeated(x, n) == IF n = 0 THEN <<>> ELSE <<x>> \o Repeated(x, n - 1)

RECURSIVE Flatten(_)
Flatten(ss) == IF ss = <<>> THEN <<>> ELSE Head(ss) \o Flatten(Tail(ss))

\* the identifiers of the samples before the pattern is removed, ascending
RawTfColumn == Ascending({results_dir[e].name : e \in SampleSlots})

\* the identifiers of the long-table rows before the pattern is removed, ascending
RawLongColumn(selector) ==
  LET libs == Ascending({SegLibrary(s[1], s[2]) : s \in RowSlots(selector)})
  IN  Flatten([k \in 1..Len(libs) |->
                 Repeated(libs[k],
                          Cardinality({s \in RowSlots(selector) :
                                         SegLibrary(s[1], s[2]) = libs[k]}))])

RemovedFrom(column) == [i \in 1..Len(column) |-> Normalized(column[i])]

\* C10 amended: the rows of tf.txt and of both long tables are in ascending order
\* of the library identifier as it was before the pattern was removed; the
\* identifier written is that one with the pattern removed.
C10_AscendingBeforeRemoval ==
  /\ IsWritten("tf.txt") => LibraryColumn("tf.txt") = RemovedFrom(RawTfColumn)
  /\ IsWritten("cna_logR_long.txt")
       => LibraryColumn("cna_logR_long.txt") = RemovedFrom(RawLongColumn(LogR))
  /\ IsWritten("cna_logR_Copy_Number_long.txt")
       => LibraryColumn("cna_logR_Copy_Number_long.txt")
            = RemovedFrom(RawLongColumn(LogRCopyNumber))

\* two samples written whose order by written identifier differs from the order
\* by identifier before removal
C10_Witness ==
  /\ IsWritten("cna_logR_Copy_Number_long.txt")
  /\ Len(LibraryColumn("tf.txt")) = 2
  /\ StrLess(LibraryColumn("tf.txt")[2], LibraryColumn("tf.txt")[1])
  /\ Len(LibraryColumn("cna_logR_long.txt")) >= 2

====
